---- MODULE Spec2Model ----
(***************************************************************************)
(* Job ledger and enhancement pipeline of the OnShelf image processor.     *)
(*                                                                         *)
(* The ledger is the pair of tables the service reads and writes:          *)
(*   media_files                 source rows (owned by the upstream system)*)
(*                               and the output rows mark_as_completed     *)
(*                               inserts (processed_media);                *)
(*   media_processing_pipeline   the enhancement job rows (pipeline).      *)
(* process_image is run by the poll worker and by the background task a    *)
(* manual trigger schedules; each ledger call is one step, and a call      *)
(* either takes effect or raises without effect.                           *)
(* The worker's loop, its cycle errors and the two ways the service is     *)
(* shut down (lifespan, and the signal handler of main.py) are part of     *)
(* SpecService; SpecRetry traces the retry loops of the download and the   *)
(* upload.                                                                 *)
(***************************************************************************)
EXTENDS Integers, Sequences, FiniteSets, TLC

\* ------------------------------------------------------------- bounds
NumSources == 2        \* source rows of media_files in the running service
NumLedgerSources == 3  \* source rows of the ledgers get_pending_images is run on
MaxOutputs == 2        \* output rows mark_as_completed may insert
MaxLimit == 2          \* largest MAX_CONCURRENT_PROCESSING configured
MaxAttempts == 3       \* invocations of process_image in one run

Sources == 1..NumSources

NULL == "NULL"

VARIABLES
    media_files,      \* source rows [approval_status, status]: a sequence in
                      \* created_at order, a row's media_id being its index
    pipeline,         \* rows of media_processing_pipeline (process_type = enhancement)
    processed_media,  \* rows mark_as_completed inserted into media_files
    pending_images,   \* the worker's batch: media ids not yet processed
    pc,               \* per runner: the ledger call process_image makes next
    task,             \* per runner: media_id of the running process_image (0: none)
    current_stage,    \* per runner: process_image's current_stage
    existing,         \* per runner: mark_as_processing's `existing.data` is non-empty
    attempts,         \* invocations of process_image so far
    batch_limit,      \* MAX_CONCURRENT_PROCESSING, read from the environment
    image,            \* the image handed to process_smart_enhancement
    result,           \* what process_smart_enhancement returned for it
    raising,          \* the call that raised inside process_smart_enhancement
    io,               \* per runner: what download_image and upload_processed_image
                      \* did for the running process_image (where it is traced)
    shutdown_event,   \* shutdown_event.is_set()
    background_task_running,
    worker_log,       \* the event process_pending_images logged last
    sleep_for,        \* seconds of the asyncio.sleep the worker is in or was in last
    service           \* the server process: running, shutting down, or gone

\* the worker's and the process's lifecycle
lifecycle_vars == <<shutdown_event, background_task_running, worker_log, service>>

service_vars == <<lifecycle_vars, sleep_for>>

vars == <<media_files, pipeline, processed_media, pending_images, pc, task,
          current_stage, existing, attempts, batch_limit, image, result,
          raising, io, service_vars>>

Runners == {"worker", "manual"}

\* ------------------------------------------------------ ledger queries

Min(a, b) == IF a < b THEN a ELSE b

Range(s) == {s[i] : i \in 1..Len(s)}

\* the enhancement job rows of a source (lines 56-60, 122-124)
pipeline_rows(media_id) ==
    SelectSeq(pipeline, LAMBDA row : row.source_media_id = media_id)

\* media_files .eq(approval_status, approved).eq(status, completed)
\* .order(created_at): the matching media ids, ascending.
RECURSIVE approved_uploads(_)
approved_uploads(n) ==
    IF n = 0 THEN <<>>
    ELSE LET rest == approved_uploads(n - 1)
         IN  IF /\ media_files[n].approval_status = "approved"
                /\ media_files[n].status = "completed"
             THEN Append(rest, n)
             ELSE rest

\* .limit(limit * 2)
response_data(limit) ==
    LET all == approved_uploads(Len(media_files))
    IN  SubSeq(all, 1, Min(limit * 2, Len(all)))

should_process_retry_inflight(rows) ==
    IF rows = <<>> THEN TRUE
    ELSE rows[1].process_status \in {"pending", "failed", "processing"}

\* lines 65-72: the decision for one source, from its pipeline_check.data
should_process(rows) ==
    IF rows = <<>> THEN TRUE
    ELSE rows[1].process_status \in {"pending", "failed"}

\* lines 53-79: the filter loop with its early break
RECURSIVE filter_loop(_, _, _, _)
filter_loop(data, i, unprocessed_images, limit) ==
    IF i > Len(data) THEN unprocessed_images
    ELSE IF should_process(pipeline_rows(data[i]))
         THEN LET acc == Append(unprocessed_images, data[i])
              IN  IF Len(acc) >= limit THEN acc
                  ELSE filter_loop(data, i + 1, acc, limit)
         ELSE filter_loop(data, i + 1, unprocessed_images, limit)

get_pending_images_no_break(limit) ==
    filter_loop(response_data(limit), 1, <<>>, limit * 2)

\* get_pending_images (lines 32-98)
get_pending_images(limit) == filter_loop(response_data(limit), 1, <<>>, limit)

\* ------------------------------------------------------ ledger writes

\* .eq("source_media_id", media_id).eq("process_type", "enhancement")
Matches(row, media_id) == row.source_media_id = media_id

insert_always(media_id, found) ==
    Append(pipeline, [source_media_id |-> media_id, process_status |-> "processing",
                      output_media_id |-> 0, error_details |-> NULL])

\* lines 126-145: insert a new row, or update the existing one(s); the other
\* columns written (process_config) are not read by the service
mark_as_processing_write(media_id, found) ==
    IF ~found
    THEN Append(pipeline, [source_media_id |-> media_id, process_status |-> "processing",
                           output_media_id |-> 0, error_details |-> NULL])
    ELSE [i \in 1..Len(pipeline) |->
            IF Matches(pipeline[i], media_id)
            THEN [pipeline[i] EXCEPT !.process_status = "processing"]
            ELSE pipeline[i]]

\* lines 239-244 (process_results and processing_time_ms are not read)
mark_as_completed_update(media_id, new_media_id) ==
    [i \in 1..Len(pipeline) |->
        IF Matches(pipeline[i], media_id)
        THEN [pipeline[i] EXCEPT !.process_status = "completed",
                                 !.output_media_id = new_media_id]
        ELSE pipeline[i]]

\* lines 281-289 (process_results is not read)
mark_as_failed_update(media_id, message) ==
    [i \in 1..Len(pipeline) |->
        IF Matches(pipeline[i], media_id)
        THEN [pipeline[i] EXCEPT !.process_status = "failed",
                                 !.error_details = message]
        ELSE pipeline[i]]

\* ------------------------------------------------------------ initial

MediaRows ==
    { [approval_status |-> "approved", status |-> "completed"],
      [approval_status |-> "approved", status |-> "uploading"],
      [approval_status |-> "pending",  status |-> "completed"] }

NoImage == [tag |-> "none"]

\* download_image and upload_processed_image are not traced
IoOff == [r \in Runners |-> [tag |-> "off"]]

IdleRunners ==
    /\ pending_images = <<>>
    /\ pc = [r \in Runners |-> "idle"]
    /\ task = [r \in Runners |-> 0]
    /\ current_stage = [r \in Runners |-> "initialization"]
    /\ existing = [r \in Runners |-> FALSE]
    /\ attempts = 0
    /\ raising = "none"
    /\ shutdown_event = FALSE
    /\ background_task_running = TRUE
    /\ worker_log = "background_worker_started"
    /\ sleep_for = 0
    /\ service = "running"

\* The service starts on a ledger that holds the upstream system's source rows
\* and no enhancement job yet.
Init ==
    /\ media_files \in [Sources -> MediaRows]
    /\ pipeline = <<>>
    /\ processed_media = <<>>
    /\ batch_limit \in 1..MaxLimit
    /\ IdleRunners
    /\ io = IoOff
    /\ image = NoImage
    /\ result = NoImage

\* ------------------------------------------------------- process_image

\* POLL_INTERVAL_SECONDS, by default (line 192)
poll_interval == 30

Goto(r, label) == pc' = [pc EXCEPT ![r] = label]

\* process_image returned: the runner's locals are gone; the worker is back in
\* its loop, in `await asyncio.sleep(1)` (line 176)
Return(r) ==
    /\ pc' = [pc EXCEPT ![r] = IF r = "worker" THEN "batch" ELSE "idle"]
    /\ task' = [task EXCEPT ![r] = 0]
    /\ current_stage' = [current_stage EXCEPT ![r] = "initialization"]
    /\ sleep_for' = IF r = "worker" THEN 1 ELSE sleep_for

\* process_image entered for media_id by runner r (lines 48-56)
Enter(r, media_id) ==
    /\ attempts < MaxAttempts
    /\ attempts' = attempts + 1
    /\ pc' = [pc EXCEPT ![r] = "mark_as_processing"]
    /\ task' = [task EXCEPT ![r] = media_id]
    /\ current_stage' = [current_stage EXCEPT ![r] = "marking_as_processing"]

\* the except branch of process_image is entered (line 123)
Raise(r) == Goto(r, "mark_as_failed")

\* mark_as_processing, the existence check (lines 122-124)
MarkAsProcessingSelect(r) ==
    /\ pc[r] = "mark_as_processing"
    /\ \/ /\ existing' = [existing EXCEPT ![r] = pipeline_rows(task[r]) # <<>>]
          /\ Goto(r, "mark_as_processing_write")
       \/ /\ Raise(r)
          /\ UNCHANGED existing
    /\ UNCHANGED <<media_files, pipeline, processed_media, pending_images, task,
                   current_stage, attempts, batch_limit, image, result, raising, io, service_vars>>

FailStages ==
    {"downloading", "rotation_correction", "brightness_enhancement",
     "shadow_enhancement", "glare_reduction", "text_sharpening", "uploading"}

\* ------------------------------------------- download and upload retries

\* max_retries: int = 3 (download_image and upload_processed_image alike)
max_retries == 3

\* what one attempt of download_image meets: httpx.get or raise_for_status
\* raises, cv2.imdecode returns None, or the image is decoded
DownloadOutcomes == {"ok", "http_error", "decode_error"}

\* what one attempt of upload_processed_image meets
UploadOutcomes == {"ok", "storage_error"}

\* 2 ** attempt
RECURSIVE Pow2(_)
Pow2(n) == IF n = 0 THEN 1 ELSE 2 * Pow2(n - 1)

\* `for attempt in range(max_retries)` with its try/except (lines 323-356 and
\* 387-421): outcomes[k] is what the k-th attempt meets if it is made. The
\* result tells whether the call returned or raised, the attempts made with
\* what each met, and the time.sleep calls in order.
RECURSIVE retry_loop(_, _, _)
retry_loop(outcomes, attempt, sleeps) ==
    IF outcomes[attempt + 1] = "ok"
    THEN [returned |-> TRUE, made |-> SubSeq(outcomes, 1, attempt + 1), sleeps |-> sleeps]
    ELSE IF attempt = max_retries - 1
    THEN [returned |-> FALSE, made |-> SubSeq(outcomes, 1, attempt + 1), sleeps |-> sleeps]
    ELSE retry_loop(outcomes, attempt + 1, Append(sleeps, Pow2(attempt)))

\* download_image (lines 309-356): the decode is inside the try block
download_image(outcomes) == retry_loop(outcomes, 0, <<>>)

\* the store loop was not entered
NotRun == [returned |-> FALSE, made |-> <<>>, sleeps |-> <<>>]

\* upload_processed_image (lines 358-421): the encode comes before the loop
upload_processed_image(success, outcomes) ==
    IF ~success
    THEN [encoded |-> FALSE, store |-> NotRun]
    ELSE [encoded |-> TRUE, store |-> retry_loop(outcomes, 0, <<>>)]

NoUpload == [encoded |-> FALSE, store |-> NotRun, called |-> FALSE]

Downloads == {download_image(o) : o \in [1..max_retries -> DownloadOutcomes]}

Uploads ==
    {upload_processed_image(success, o) :
        success \in BOOLEAN, o \in [1..max_retries -> UploadOutcomes]}

\* what the two calls can have done when process_image raises at `stage`, or
\* reaches marking_as_completed (lines 59-106)
IoTraces(stage) ==
    IF stage = "downloading"
    THEN {[tag |-> "traced", download |-> d, upload |-> NoUpload] :
             d \in {x \in Downloads : ~x.returned}}
    ELSE IF stage = "uploading"
    THEN {[tag |-> "traced", download |-> d,
           upload |-> [encoded |-> u.encoded, store |-> u.store, called |-> TRUE]] :
             d \in {x \in Downloads : x.returned},
             u \in {x \in Uploads : ~x.store.returned}}
    ELSE IF stage = "marking_as_completed"
    THEN {[tag |-> "traced", download |-> d,
           upload |-> [encoded |-> u.encoded, store |-> u.store, called |-> TRUE]] :
             d \in {x \in Downloads : x.returned},
             u \in {x \in Uploads : x.store.returned}}
    ELSE {[tag |-> "traced", download |-> d, upload |-> NoUpload] :
             d \in {x \in Downloads : x.returned}}

\* runner r's download and upload are recorded, where they are traced
Traced(r, stage) ==
    IF io[r].tag = "off" THEN io' = io
    ELSE \E t \in IoTraces(stage) : io' = [io EXCEPT ![r] = t]

\* mark_as_processing, the insert or update (lines 126-145), then the download,
\* the five stages and the upload (lines 59-106), which make no ledger call:
\* either all return or one of them raises
MarkAsProcessingWrite(r) ==
    /\ pc[r] = "mark_as_processing_write"
    /\ \/ /\ pipeline' = mark_as_processing_write(task[r], existing[r])
          /\ \/ /\ current_stage' = [current_stage EXCEPT ![r] = "marking_as_completed"]
                /\ Traced(r, "marking_as_completed")
                /\ Goto(r, "mark_as_completed")
             \/ \E stage \in FailStages :
                   /\ current_stage' = [current_stage EXCEPT ![r] = stage]
                   /\ Traced(r, stage)
                   /\ Raise(r)
       \/ /\ Raise(r)
          /\ UNCHANGED <<pipeline, current_stage, io>>
    /\ existing' = [existing EXCEPT ![r] = FALSE]
    /\ UNCHANGED <<media_files, processed_media, pending_images, task,
                   attempts, batch_limit, image, result, raising, service_vars>>

\* lines 221-236: the new media_files row for the processed image
processed_media_insert(media_id) ==
    Append(processed_media, [processed_from |-> media_id])

\* the media_id the insert returned (line 236)
processed_media_id(rows) == Len(media_files) + Len(rows)

\* mark_as_completed (lines 182-267): it raises before the insert of the output
\* row, or between that insert and the update of the pipeline row, or returns,
\* and process_image with it (lines 112-121)
MarkAsCompleted(r) ==
    /\ pc[r] = "mark_as_completed"
    /\ \/ /\ Raise(r)
          /\ UNCHANGED <<pipeline, processed_media, task, current_stage, sleep_for>>
       \/ /\ Len(processed_media) < MaxOutputs
          /\ processed_media' = processed_media_insert(task[r])
          /\ \/ /\ Raise(r)
                /\ UNCHANGED <<pipeline, task, current_stage, sleep_for>>
             \/ /\ pipeline' = mark_as_completed_update(task[r],
                                    processed_media_id(processed_media'))
                /\ Return(r)
    /\ UNCHANGED <<media_files, pending_images, existing, attempts, batch_limit,
                   image, result, raising, io, lifecycle_vars>>

\* the text mark_as_failed stores: "Failed at stage '<stage>': <error>" (line 129)
error_message(stage) == stage

MarkAsFailed_propagates(r) ==
    /\ pc[r] = "mark_as_failed"
    /\ \/ /\ pipeline' = mark_as_failed_update(task[r], error_message(current_stage[r]))
          /\ Return(r)
          /\ UNCHANGED pending_images
       \/ /\ pc' = [pc EXCEPT ![r] = "idle"]
          /\ task' = [task EXCEPT ![r] = 0]
          /\ current_stage' = [current_stage EXCEPT ![r] = "initialization"]
          /\ pending_images' = IF r = "worker" THEN <<>> ELSE pending_images
          /\ sleep_for' = IF r = "worker" THEN poll_interval ELSE sleep_for
          /\ UNCHANGED pipeline
    /\ UNCHANGED <<media_files, processed_media, existing,
                   attempts, batch_limit, image, result, raising, io, lifecycle_vars>>

\* process_image's except branch (lines 123-143): mark_as_failed, whose own
\* failure is logged and swallowed
MarkAsFailed(r) ==
    /\ pc[r] = "mark_as_failed"
    /\ \/ pipeline' = mark_as_failed_update(task[r], error_message(current_stage[r]))
       \/ UNCHANGED pipeline
    /\ Return(r)
    /\ UNCHANGED <<media_files, processed_media, pending_images, existing,
                   attempts, batch_limit, image, result, raising, io, lifecycle_vars>>

ProcessImage(r) ==
    \/ MarkAsProcessingSelect(r)
    \/ MarkAsProcessingWrite(r)
    \/ MarkAsCompleted(r)
    \/ MarkAsFailed(r)

\* ----------------------------------------------------------- the worker

\* background_worker's loop is entered (line 200) and process_pending_images
\* makes its query (lines 149-162), which returns. "processing_batch" is logged
\* for a batch; "no_pending_images" is a debug event, below the log level. With
\* no pending image the loop below has nothing to do and EndBatch returns.
Poll ==
    /\ pc["worker"] = "idle"
    /\ ~shutdown_event
    /\ pending_images' = get_pending_images(batch_limit)
    /\ worker_log' = IF pending_images' = <<>> THEN worker_log ELSE "processing_batch"
    /\ sleep_for' = 0
    /\ Goto("worker", "batch")
    /\ UNCHANGED <<media_files, pipeline, processed_media, task, current_stage,
                   existing, attempts, batch_limit, image, result, raising, io,
                   shutdown_event, background_task_running, service>>

\* the for loop takes the next image of the batch (lines 165-173)
StartNext ==
    /\ pc["worker"] = "batch"
    /\ ~shutdown_event
    /\ pending_images # <<>>
    /\ Enter("worker", Head(pending_images))
    /\ pending_images' = Tail(pending_images)
    /\ UNCHANGED <<media_files, pipeline, processed_media, existing,
                   batch_limit, image, result, raising, io, service_vars>>

\* the batch is done; background_worker sleeps until the next poll (line 206)
EndBatch ==
    /\ pc["worker"] = "batch"
    /\ pending_images = <<>>
    /\ sleep_for' = poll_interval
    /\ Goto("worker", "idle")
    /\ UNCHANGED <<media_files, pipeline, processed_media, pending_images, task,
                   current_stage, existing, attempts, batch_limit, image, result,
                   raising, io, lifecycle_vars>>

Worker == Poll \/ StartNext \/ EndBatch \/ ProcessImage("worker")

\* ------------------------------------------------------ manual trigger

\* media_files.processing_status as the handler reads it: a column of the
\* upstream system's table that no ledger write of this service touches
ProcessingStatusValues == {"pending", "processing", "completed", "failed"}

\* lines 324-343: what the handler decides from the row it read
schedules(processing_status) == processing_status \notin {"completed", "processing"}

\* POST /process/{media_id} (lines 313-360) for a media_id the table holds. The
\* background task it adds runs process_image in a thread of its own; one such
\* task at a time is modelled. A request that is answered without scheduling
\* (already completed, being processed, or the query raised) changes nothing.
ManualProcess(media_id) ==
    /\ pc["manual"] = "idle"
    /\ \E processing_status \in ProcessingStatusValues :
          IF schedules(processing_status)
          THEN /\ Enter("manual", media_id)
               /\ UNCHANGED <<media_files, pipeline, processed_media, pending_images,
                              existing, batch_limit, image, result, raising, io, service_vars>>
          ELSE UNCHANGED vars

Manual == (\E media_id \in Sources : ManualProcess(media_id)) \/ ProcessImage("manual")

\* ------------------------------------------------------ specifications

Next == Worker \/ Manual

\* the service: the poll worker and manual triggers
Spec == Init /\ [][Next]_vars

\* the poll worker alone
SpecWorker == Init /\ [][Worker]_vars

\* ----------------------------------------------- cycle errors and shutdown

PollRaises_escapes ==
    /\ pc["worker"] = "idle"
    /\ ~shutdown_event
    /\ worker_log' = "background_worker_error"
    /\ background_task_running' = FALSE
    /\ Goto("worker", "stopped")
    /\ UNCHANGED <<media_files, pipeline, processed_media, pending_images, task,
                   current_stage, existing, attempts, batch_limit, image, result,
                   raising, io, shutdown_event, service, sleep_for>>

\* get_pending_images raises (lines 100-107), or the limit cannot be read:
\* process_pending_images logs "batch_processing_error" and returns (lines
\* 178-184), and background_worker sleeps poll_interval as after any cycle
\* (line 206). Its own except branch (lines 208-217) is not reached by an
\* exception process_pending_images has caught.
PollRaises ==
    /\ pc["worker"] = "idle"
    /\ ~shutdown_event
    /\ worker_log' = "batch_processing_error"
    /\ sleep_for' = poll_interval
    /\ UNCHANGED <<media_files, pipeline, processed_media, pending_images, pc, task,
                   current_stage, existing, attempts, batch_limit, image, result,
                   raising, io, shutdown_event, background_task_running, service>>

\* `if shutdown_event.is_set(): break` (lines 166-167): the rest of the batch
\* is dropped, process_pending_images returns and the worker sleeps (line 206)
BreakBatch ==
    /\ pc["worker"] = "batch"
    /\ shutdown_event
    /\ pending_images # <<>>
    /\ pending_images' = <<>>
    /\ sleep_for' = poll_interval
    /\ Goto("worker", "idle")
    /\ UNCHANGED <<media_files, pipeline, processed_media, task, current_stage,
                   existing, attempts, batch_limit, image, result, raising, io,
                   lifecycle_vars>>

\* `while not shutdown_event.is_set()` ends the loop (lines 200, 219-220)
WorkerExit ==
    /\ pc["worker"] = "idle"
    /\ shutdown_event
    /\ background_task_running' = FALSE
    /\ worker_log' = "background_worker_stopped"
    /\ Goto("worker", "stopped")
    /\ UNCHANGED <<media_files, pipeline, processed_media, pending_images, task,
                   current_stage, existing, attempts, batch_limit, image, result,
                   raising, io, shutdown_event, service, sleep_for>>

\* handle_shutdown (lines 394-398), the handler main.py registers for SIGINT
\* and SIGTERM (lines 401-403): it runs in the main thread between two
\* instructions of whatever that thread executes, process_image included, sets
\* the flag and calls sys.exit(0). SystemExit is not an Exception: no except
\* branch of process_image, process_pending_images or background_worker
\* catches it, and the process ends where it stands.
HandleShutdown ==
    /\ service \in {"running", "shutting_down"}
    /\ shutdown_event' = TRUE
    /\ service' = "exited"
    /\ pc' = [r \in Runners |-> "exited"]
    /\ UNCHANGED <<media_files, pipeline, processed_media, pending_images, task,
                   current_stage, existing, attempts, batch_limit, image, result,
                   raising, io, background_task_running, worker_log, sleep_for>>

\* the worker is suspended in an await: the sleep between two images (line
\* 176) or between two polls (line 206), or it has not run yet
WorkerAwaits ==
    \/ pc["worker"] = "idle"
    \/ pc["worker"] = "batch" /\ sleep_for = 1

\* lifespan, after the yield (lines 243-245): the server shuts the application
\* down. It runs on the event loop, hence only while the worker awaits.
LifespanShutdown ==
    /\ service = "running"
    /\ WorkerAwaits
    /\ shutdown_event' = TRUE
    /\ service' = "shutting_down"
    /\ UNCHANGED <<media_files, pipeline, processed_media, pending_images, pc, task,
                   current_stage, existing, attempts, batch_limit, image, result,
                   raising, io, background_task_running, worker_log, sleep_for>>

\* max_wait = 30 (line 248)
max_wait == 30

\* lifespan's wait loop (lines 249-253) ends because the worker has stopped
LifespanComplete ==
    /\ service = "shutting_down"
    /\ ~background_task_running
    /\ service' = "shutdown_complete"
    /\ UNCHANGED <<media_files, pipeline, processed_media, pending_images, pc, task,
                   current_stage, existing, attempts, batch_limit, image, result,
                   raising, io, shutdown_event, background_task_running, worker_log,
                   sleep_for>>

\* lifespan's wait loop ends because waited reached max_wait: the worker is
\* still in a sleep that is not shorter than the wait, and the process ends
\* with it
LifespanGiveUp ==
    /\ service = "shutting_down"
    /\ background_task_running
    /\ pc["worker"] = "idle"
    /\ sleep_for >= max_wait
    /\ service' = "shutdown_complete"
    /\ pc' = [r \in Runners |-> "exited"]
    /\ UNCHANGED <<media_files, pipeline, processed_media, pending_images, task,
                   current_stage, existing, attempts, batch_limit, image, result,
                   raising, io, shutdown_event, background_task_running, worker_log,
                   sleep_for>>

Service ==
    \/ Worker
    \/ PollRaises
    \/ BreakBatch
    \/ WorkerExit
    \/ HandleShutdown
    \/ LifespanShutdown
    \/ LifespanComplete
    \/ LifespanGiveUp

\* the poll worker with its cycle errors, and the ways the service is shut down
SpecService == Init /\ [][Service]_vars

\* download_image and upload_processed_image are traced, none called yet
IoIdle == [r \in Runners |-> [tag |-> "idle"]]

InitRetry ==
    /\ media_files \in [Sources -> MediaRows]
    /\ pipeline = <<>>
    /\ processed_media = <<>>
    /\ batch_limit \in 1..MaxLimit
    /\ IdleRunners
    /\ io = IoIdle
    /\ image = NoImage
    /\ result = NoImage

\* the poll worker alone, its downloads and uploads traced
SpecRetry == InitRetry /\ [][Worker]_vars

\* ------------------------------------------- the enhancement pipeline

\* An image is known by what the pipeline measures of it: np.std and np.mean
\* of its grey levels and the variance of its Laplacian, on a grid of values
\* around the thresholds. The tag tells an input from what apply_clahe made.
ContrastValues == {39, 40, 41, 42, 43}
BrightnessValues == {19, 20, 128, 235, 236}
SharpnessValues == {50, 51, 80, 81, 110, 111}

ImagesTagged(tag) ==
    [tag : {tag}, contrast : ContrastValues, brightness : BrightnessValues,
     sharpness : SharpnessValues]

Images == ImagesTagged("input")

\* apply_clahe (lines 46-72): OpenCV's CLAHE, any image as far as the model knows
ClaheImages == ImagesTagged("clahe")

\* where an exception is raised inside process_smart_enhancement, if anywhere
Faults == {"none", "image_quality_is_good", "apply_clahe", "enhancement_improved_image"}

image_quality_is_good_inclusive(img) ==
    LET is_good == /\ img.contrast >= 40
                   /\ 20 < img.brightness /\ img.brightness <= 235
                   /\ img.sharpness > 80
    IN  [is_good |-> is_good,
         quality_metrics |-> [contrast |-> img.contrast,
                              brightness |-> img.brightness,
                              sharpness |-> img.sharpness,
                              needs_enhancement |-> ~is_good]]

\* image_quality_is_good (lines 13-43)
image_quality_is_good(img) ==
    LET is_good == /\ img.contrast > 40
                   /\ 20 <= img.brightness /\ img.brightness <= 235
                   /\ img.sharpness > 80
    IN  [is_good |-> is_good,
         quality_metrics |-> [contrast |-> img.contrast,
                              brightness |-> img.brightness,
                              sharpness |-> img.sharpness,
                              needs_enhancement |-> ~is_good]]

enhancement_improved_image_inclusive(original, enhanced) ==
    LET contrast_improvement == enhanced.contrast - original.contrast
        sharpness_improvement == enhanced.sharpness - original.sharpness
        improvement_detected == contrast_improvement > 1 /\ sharpness_improvement >= -30
    IN  [improvement_detected |-> improvement_detected,
         improvement_metrics |-> [original_contrast |-> original.contrast,
                                  enhanced_contrast |-> enhanced.contrast,
                                  contrast_improvement |-> contrast_improvement,
                                  original_sharpness |-> original.sharpness,
                                  enhanced_sharpness |-> enhanced.sharpness,
                                  sharpness_improvement |-> sharpness_improvement,
                                  improvement_detected |-> improvement_detected]]

\* enhancement_improved_image (lines 75-114)
enhancement_improved_image(original, enhanced) ==
    LET contrast_improvement == enhanced.contrast - original.contrast
        sharpness_improvement == enhanced.sharpness - original.sharpness
        improvement_detected == contrast_improvement > 1 /\ sharpness_improvement > -30
    IN  [improvement_detected |-> improvement_detected,
         improvement_metrics |-> [original_contrast |-> original.contrast,
                                  enhanced_contrast |-> enhanced.contrast,
                                  contrast_improvement |-> contrast_improvement,
                                  original_sharpness |-> original.sharpness,
                                  enhanced_sharpness |-> enhanced.sharpness,
                                  sharpness_improvement |-> sharpness_improvement,
                                  improvement_detected |-> improvement_detected]]

processing_error_keeps_enhanced(img, fault, calls, enhanced) ==
    [image |-> IF enhanced = NoImage THEN img ELSE enhanced,
     metadata |-> [enhancement_applied |-> FALSE,
                   technique_used |-> "none",
                   reason |-> "processing_error",
                   error |-> fault,
                   processing_time_ms |-> "elapsed"],
     calls |-> calls,
     enhanced |-> enhanced]

\* the except branch (lines 183-195)
processing_error(img, fault, calls, enhanced) ==
    [image |-> img,
     metadata |-> [enhancement_applied |-> FALSE,
                   technique_used |-> "none",
                   reason |-> "processing_error",
                   error |-> fault,
                   processing_time_ms |-> "elapsed"],
     calls |-> calls,
     enhanced |-> enhanced]

enhance_and_validate_returns_enhanced(img, assessed, enhanced, fault) ==
    IF fault = "apply_clahe"
    THEN processing_error(img, fault, <<"image_quality_is_good", "apply_clahe">>, NoImage)
    ELSE IF fault = "enhancement_improved_image"
    THEN processing_error(img, fault,
             <<"image_quality_is_good", "apply_clahe", "enhancement_improved_image">>,
             enhanced)
    ELSE LET validated == enhancement_improved_image(img, enhanced)
         IN  [image |-> enhanced,
              metadata |-> [enhancement_applied |-> validated.improvement_detected,
                            technique_used |-> IF validated.improvement_detected
                                               THEN "CLAHE" ELSE "none",
                            quality_assessment |-> assessed.quality_metrics,
                            improvement_analysis |-> validated.improvement_metrics,
                            clahe_parameters |-> [clip_limit |-> "3.5", grid_size |-> "8x8"],
                            processing_time_ms |-> "elapsed"],
              calls |-> <<"image_quality_is_good", "apply_clahe",
                          "enhancement_improved_image">>,
              enhanced |-> enhanced]

\* steps 2 to 4 (lines 153-181), entered when the quality gate failed
enhance_and_validate(img, assessed, enhanced, fault) ==
    IF fault = "apply_clahe"
    THEN processing_error(img, fault, <<"image_quality_is_good", "apply_clahe">>, NoImage)
    ELSE IF fault = "enhancement_improved_image"
    THEN processing_error(img, fault,
             <<"image_quality_is_good", "apply_clahe", "enhancement_improved_image">>,
             enhanced)
    ELSE LET validated == enhancement_improved_image(img, enhanced)
         IN  [image |-> IF validated.improvement_detected THEN enhanced ELSE img,
              metadata |-> [enhancement_applied |-> validated.improvement_detected,
                            technique_used |-> IF validated.improvement_detected
                                               THEN "CLAHE" ELSE "none",
                            quality_assessment |-> assessed.quality_metrics,
                            improvement_analysis |-> validated.improvement_metrics,
                            clahe_parameters |-> [clip_limit |-> "3.5", grid_size |-> "8x8"],
                            processing_time_ms |-> "elapsed"],
              calls |-> <<"image_quality_is_good", "apply_clahe",
                          "enhancement_improved_image">>,
              enhanced |-> enhanced]

process_smart_enhancement_always_enhance(img, enhanced, fault) ==
    IF fault = "image_quality_is_good"
    THEN processing_error(img, fault, <<"image_quality_is_good">>, NoImage)
    ELSE enhance_and_validate(img, image_quality_is_good(img), enhanced, fault)

\* process_smart_enhancement (lines 117-195). `enhanced` is what apply_clahe
\* returns if it is called, `fault` the call that raises. Besides the returned
\* image and metadata the model records the calls made and apply_clahe's output.
process_smart_enhancement(img, enhanced, fault) ==
    IF fault = "image_quality_is_good"
    THEN processing_error(img, fault, <<"image_quality_is_good">>, NoImage)
    ELSE LET assessed == image_quality_is_good(img)
         IN  IF assessed.is_good
             THEN [image |-> img,
                   metadata |-> [enhancement_applied |-> FALSE,
                                 technique_used |-> "none",
                                 reason |-> "image_quality_already_good",
                                 quality_assessment |-> assessed.quality_metrics,
                                 processing_time_ms |-> "elapsed"],
                   calls |-> <<"image_quality_is_good">>,
                   enhanced |-> NoImage]
             ELSE enhance_and_validate(img, assessed, enhanced, fault)

InitEnhance ==
    /\ media_files = <<>>
    /\ pipeline = <<>>
    /\ processed_media = <<>>
    /\ batch_limit = 1
    /\ IdleRunners
    /\ io = IoOff
    /\ image \in Images
    /\ result = NoImage

\* one call of process_smart_enhancement on the image; `raising` keeps the call
\* that raises if it is made
ProcessSmartEnhancement ==
    /\ image # NoImage
    /\ result = NoImage
    /\ \E enhanced \in ClaheImages, fault \in Faults :
          /\ result' = process_smart_enhancement(image, enhanced, fault)
          /\ raising' = fault
    /\ UNCHANGED <<media_files, pipeline, processed_media, pending_images, pc, task,
                   current_stage, existing, attempts, batch_limit, image,
                   io, service_vars>>

SpecEnhance == InitEnhance /\ [][ProcessSmartEnhancement]_vars

\* ------------------------------------------------ rotation correction

\* An image is known to the rotation stage by the lines cv2.HoughLines finds
\* in it: the theta of each line in degrees, a multiple of the accumulator's
\* resolution of one degree in [0, 180); no line stands for `lines is None`.
\* Deviations and angles are counted in half degrees, so that the median of
\* an even number of whole degrees is an integer: 0.5 degrees is 1, 10
\* degrees is 20.
MaxLines == 3

ThetaValues == {0, 45, 79, 80, 88, 89, 90, 91, 93, 100, 101, 179}

RotationImages ==
    [tag : {"input"}, lines : UNION {[1..n -> ThetaValues] : n \in 0..MaxLines}]

abs(x) == IF x < 0 THEN -x ELSE x

\* np.clip
clip(x, lo, hi) == IF x < lo THEN lo ELSE IF x > hi THEN hi ELSE x

\* lines 44-53: the near-horizontal lines' deviations from horizontal
deviations(lines) ==
    LET kept == SelectSeq(lines, LAMBDA angle_deg :
                    \/ 80 <= angle_deg /\ angle_deg <= 100
                    \/ 260 <= angle_deg /\ angle_deg <= 280)
    IN  [i \in 1..Len(kept) |-> IF kept[i] > 180 THEN 2 * (kept[i] - 270)
                                                 ELSE 2 * (kept[i] - 90)]

RECURSIVE sort(_)
sort(angles) ==
    IF angles = <<>> THEN <<>>
    ELSE LET rest == sort(Tail(angles))
         IN  SelectSeq(rest, LAMBDA y : y < Head(angles))
                \o <<Head(angles)>>
                \o SelectSeq(rest, LAMBDA y : y >= Head(angles))

\* np.median: the middle of the sorted values, or the mean of the two middle
\* ones
median(angles) ==
    LET sorted == sort(angles)
        n == Len(angles)
    IN  IF n % 2 = 1 THEN sorted[(n + 1) \div 2]
        ELSE (sorted[n \div 2] + sorted[(n \div 2) + 1]) \div 2

\* detect_shelf_rotation (lines 9-64)
detect_shelf_rotation(lines) ==
    IF lines = <<>> THEN 0
    ELSE LET angles == deviations(lines)
         IN  IF angles = <<>> THEN 0
             ELSE clip(median(angles), -20, 20)

\* apply_rotation (lines 66-97) and auto_crop_borders (lines 100-145): the
\* image turned by the clipped angle, its borders cropped
apply_rotation(img, angle) ==
    [tag |-> "rotated", angle |-> clip(angle, -20, 20), lines |-> img.lines]

process_rotation_inclusive(img) ==
    LET angle == detect_shelf_rotation(img.lines)
    IN  IF abs(angle) >= 1
        THEN [image |-> apply_rotation(img, angle),
              metadata |-> [rotation |-> [detected_angle |-> angle,
                                          rotation_applied |-> TRUE]]]
        ELSE [image |-> img,
              metadata |-> [rotation |-> [detected_angle |-> 0,
                                          rotation_applied |-> FALSE]]]

\* process_rotation (lines 148-178)
process_rotation(img) ==
    LET angle == detect_shelf_rotation(img.lines)
    IN  IF abs(angle) > 1
        THEN [image |-> apply_rotation(img, angle),
              metadata |-> [rotation |-> [detected_angle |-> angle,
                                          rotation_applied |-> TRUE]]]
        ELSE [image |-> img,
              metadata |-> [rotation |-> [detected_angle |-> 0,
                                          rotation_applied |-> FALSE]]]

InitRotation ==
    /\ media_files = <<>>
    /\ pipeline = <<>>
    /\ processed_media = <<>>
    /\ batch_limit = 1
    /\ IdleRunners
    /\ io = IoOff
    /\ image \in RotationImages
    /\ result = NoImage

\* one call of process_rotation on the image
ProcessRotation ==
    /\ image # NoImage
    /\ result = NoImage
    /\ result' = process_rotation(image)
    /\ UNCHANGED <<media_files, pipeline, processed_media, pending_images, pc, task,
                   current_stage, existing, attempts, batch_limit, image,
                   raising, io, service_vars>>

SpecRotation == InitRotation /\ [][ProcessRotation]_vars

\* ------------------------------------- the worker's transform stages

stage_order_sharpening_before_glare ==
    << [current_stage |-> "rotation_correction", call |-> "process_rotation",
        appended |-> "rotation"],
       [current_stage |-> "brightness_enhancement",
        call |-> "process_brightness_enhancement", appended |-> "brightness"],
       [current_stage |-> "shadow_enhancement", call |-> "process_shadow_enhancement",
        appended |-> "shadows"],
       [current_stage |-> "text_sharpening", call |-> "process_text_sharpening",
        appended |-> "sharpening"],
       [current_stage |-> "glare_reduction", call |-> "process_glare_reduction",
        appended |-> "glare"] >>

\* process_image, lines 70-98: the stages in the order of the code, each with
\* the current_stage set before it, the function called and the name
\* appended to all_metadata["processing_stages"] once it has returned
stage_order ==
    << [current_stage |-> "rotation_correction", call |-> "process_rotation",
        appended |-> "rotation"],
       [current_stage |-> "brightness_enhancement",
        call |-> "process_brightness_enhancement", appended |-> "brightness"],
       [current_stage |-> "shadow_enhancement", call |-> "process_shadow_enhancement",
        appended |-> "shadows"],
       [current_stage |-> "glare_reduction", call |-> "process_glare_reduction",
        appended |-> "glare"],
       [current_stage |-> "text_sharpening", call |-> "process_text_sharpening",
        appended |-> "sharpening"] >>

\* where an exception is raised among the stages, if anywhere
StageFaults == {"none"} \cup {stage_order[k].current_stage : k \in 1..Len(stage_order)}

\* What a stage returns. process_rotation returns its input when it detects
\* no significant angle; the filters of the other stages are applied
\* whatever the image: each returns a new image, made of the one it was given.
stage_output(stage, img, rotated) ==
    IF stage.call = "process_rotation"
    THEN IF rotated THEN [tag |-> "rotated", of |-> img] ELSE img
    ELSE [tag |-> stage.appended, of |-> img]

\* lines 63-101: the stages from the k-th on. `img` is the image so far,
\* `done` the processing_stages and the calls made so far. The result holds
\* the image handed to upload_processed_image (none when a stage raised),
\* all_metadata, the stage that raised and the calls made.
RECURSIVE transform_stages(_, _, _, _, _)
transform_stages(img, k, rotated, fault, done) ==
    IF k > Len(stage_order)
    THEN [image |-> img,
          metadata |-> [processor_version |-> "1.0.0",
                        processing_stages |-> done.processing_stages],
          raised |-> "none",
          calls |-> done.calls]
    ELSE LET stage == stage_order[k]
             calls == Append(done.calls, stage.call)
         IN  IF fault = stage.current_stage
             THEN [image |-> NoImage,
                   metadata |-> [processor_version |-> "1.0.0",
                                 processing_stages |-> done.processing_stages],
                   raised |-> stage.current_stage,
                   calls |-> calls]
             ELSE transform_stages(stage_output(stage, img, rotated), k + 1, rotated, fault,
                      [processing_stages |-> Append(done.processing_stages, stage.appended),
                       calls |-> calls])

\* the transform stages of one process_image run on a downloaded image
ProcessImageStages ==
    /\ image # NoImage
    /\ result = NoImage
    /\ \E rotated \in BOOLEAN, fault \in StageFaults :
          /\ result' = transform_stages(image, 1, rotated, fault,
                            [processing_stages |-> <<>>, calls |-> <<>>])
          /\ raising' = fault
    /\ UNCHANGED <<media_files, pipeline, processed_media, pending_images, pc, task,
                   current_stage, existing, attempts, batch_limit, image,
                   io, service_vars>>

SpecStages == InitEnhance /\ [][ProcessImageStages]_vars

\* --------------------------------------------- the query on any ledger

JobStatuses == {"pending", "processing", "completed", "failed"}

\* A ledger with n sources whose jobs are as `jobs` says ("absent": no row): the
\* pipeline rows, a completed job pointing at its output row, a failed one
\* carrying an error text.
RECURSIVE LedgerRows(_, _, _)
LedgerRows(jobs, n, total) ==
    IF n = 0 THEN [rows |-> <<>>, outputs |-> <<>>]
    ELSE LET rest == LedgerRows(jobs, n - 1, total)
             outs == IF jobs[n] = "completed"
                     THEN Append(rest.outputs, [processed_from |-> n])
                     ELSE rest.outputs
         IN  IF jobs[n] = "absent" THEN rest
             ELSE [rows |-> Append(rest.rows,
                      [source_media_id |-> n,
                       process_status |-> jobs[n],
                       output_media_id |-> IF jobs[n] = "completed"
                                           THEN total + Len(outs) ELSE 0,
                       error_details |-> IF jobs[n] = "failed"
                                         THEN "downloading" ELSE NULL]),
                   outputs |-> outs]

InitLedger ==
    /\ media_files \in [1..NumLedgerSources -> MediaRows]
    /\ \E jobs \in [1..NumLedgerSources -> JobStatuses \cup {"absent"}] :
          LET ledger == LedgerRows(jobs, NumLedgerSources, NumLedgerSources)
          IN  /\ pipeline = ledger.rows
              /\ processed_media = ledger.outputs
    /\ batch_limit \in 1..MaxLimit
    /\ IdleRunners
    /\ io = IoOff
    /\ image = NoImage
    /\ result = NoImage

\* one get_pending_images call on each such ledger
SpecLedger == InitLedger /\ [][Poll \/ EndBatch]_vars

\* ------------------------------------------------------------- claims

JobStatus(media_id) ==
    IF pipeline_rows(media_id) = <<>> THEN "absent"
    ELSE pipeline_rows(media_id)[1].process_status

ApprovedUpload(media_id) ==
    /\ media_files[media_id].approval_status = "approved"
    /\ media_files[media_id].status = "completed"

Eligible(media_id) ==
    /\ ApprovedUpload(media_id)
    /\ JobStatus(media_id) \in {"absent", "pending", "failed"}

\* pending_images is what get_pending_images has just returned
JustPolled == pc["worker"] = "batch"

\* C1: get_pending_images returns only approved, upload-complete sources that
\* have no enhancement job or a pending or failed one; a source whose job is
\* completed or processing is never returned.
C1_OnlyEligibleReturned ==
    JustPolled => \A i \in 1..Len(pending_images) : Eligible(pending_images[i])

C1_Witness ==
    /\ JustPolled
    /\ \E i \in 1..Len(pending_images) : JobStatus(pending_images[i]) = "failed"
    /\ \E s \in 1..Len(media_files) :
          /\ ApprovedUpload(s)
          /\ JobStatus(s) = "processing"
          /\ s < pending_images[1]
    /\ \E s \in 1..Len(media_files) : ~ApprovedUpload(s)

\* C2: a source that is approved and upload-complete, whose job is failed or
\* pending, and that fewer than `limit` eligible sources precede, is returned
\* by the next get_pending_images(limit), whatever else the ledger holds.
C2_FailedReturnedNextPoll ==
    JustPolled =>
        \A s \in 1..Len(media_files) :
            ( /\ ApprovedUpload(s)
              /\ JobStatus(s) \in {"failed", "pending"}
              /\ Cardinality({e \in 1..(s - 1) : Eligible(e)}) < batch_limit )
            => s \in Range(pending_images)

\* C9: for an image the quality assessment finds good enough, the pipeline
\* returns the very same image, with enhancement_applied false and
\* technique_used "none", and runs neither the transform nor the validator.
C9_QualityGateIdempotent ==
    (result # NoImage /\ ~image_quality_is_good(image).quality_metrics.needs_enhancement)
    => /\ result.image = image
       /\ result.metadata.enhancement_applied = FALSE
       /\ result.metadata.technique_used = "none"
       /\ "apply_clahe" \notin Range(result.calls)
       /\ "enhancement_improved_image" \notin Range(result.calls)

C9_Witness ==
    /\ result # NoImage
    /\ ~image_quality_is_good(image).quality_metrics.needs_enhancement
    /\ result.metadata.reason = "image_quality_already_good"
    /\ image.contrast = 41 /\ image.brightness = 235 /\ image.sharpness = 81

\* the transform and the validator both ran to their end
Validated ==
    /\ result # NoImage
    /\ "improvement_analysis" \in DOMAIN result.metadata

Assessed ==
    /\ result # NoImage
    /\ "quality_assessment" \in DOMAIN result.metadata

\* C23: the quality gate reports needs_enhancement false exactly when
\* contrast > 40, 20 <= brightness <= 235 and sharpness > 80 (strict on
\* contrast and sharpness, inclusive on both brightness bounds), and the
\* is_good flag it returns, on which the pipeline branches, is always the
\* negation of needs_enhancement.
C23_QualityGateThresholds ==
    /\ image # NoImage =>
          image_quality_is_good(image).is_good
             = ~image_quality_is_good(image).quality_metrics.needs_enhancement
    /\ Assessed =>
          LET qa == result.metadata.quality_assessment
              within == /\ image.contrast > 40
                        /\ 20 <= image.brightness /\ image.brightness <= 235
                        /\ image.sharpness > 80
          IN  /\ qa.needs_enhancement = ~within
              /\ qa.contrast = image.contrast
              /\ qa.brightness = image.brightness
              /\ qa.sharpness = image.sharpness
              /\ ("apply_clahe" \in Range(result.calls)) = qa.needs_enhancement

\* the lowest brightness and the lowest contrast and sharpness that pass
C23_Witness ==
    /\ Assessed
    /\ image.contrast = 41 /\ image.brightness = 20 /\ image.sharpness = 81
    /\ result.metadata.quality_assessment.needs_enhancement = FALSE
    /\ result.calls = <<"image_quality_is_good">>

\* C27: every result of process_smart_enhancement carries metadata with the
\* fields enhancement_applied, technique_used, quality_assessment and
\* processing_time_ms, and quality_assessment holds contrast, brightness,
\* sharpness and needs_enhancement.
C27_MetadataFields ==
    result # NoImage =>
        /\ {"enhancement_applied", "technique_used", "quality_assessment",
             "processing_time_ms"} \subseteq DOMAIN result.metadata
        /\ {"contrast", "brightness", "sharpness", "needs_enhancement"}
              \subseteq DOMAIN result.metadata.quality_assessment

\* the call named by `raising` was made, and raised
Raised ==
    /\ result # NoImage
    /\ \/ raising = "image_quality_is_good"
       \/ /\ raising \in {"apply_clahe", "enhancement_improved_image"}
          /\ ~(image.contrast > 40 /\ 20 <= image.brightness
                /\ image.brightness <= 235 /\ image.sharpness > 80)

\* C11: process_smart_enhancement never raises: when the assessment, the
\* transform or the validation raises, it returns the original image with
\* enhancement_applied false, technique_used "none" and the error text in the
\* metadata.
C11_ErrorFallsBackToOriginal ==
    /\ result # NoImage => /\ result.image # NoImage
                           /\ "enhancement_applied" \in DOMAIN result.metadata
    /\ Raised => /\ result.image = image
                 /\ result.metadata.enhancement_applied = FALSE
                 /\ result.metadata.technique_used = "none"
                 /\ "error" \in DOMAIN result.metadata
                 /\ result.metadata.error = raising

\* the validator raised after apply_clahe had returned an image
C11_Witness ==
    /\ Raised
    /\ raising = "enhancement_improved_image"
    /\ result.enhanced \in ClaheImages
    /\ result.image = image

\* C12: whatever the outcome (gate passed, validator accepted, validator
\* rejected, internal error), enhancement_applied false implies that the
\* returned image is the input, and enhancement_applied is true exactly when
\* technique_used is not "none" and the returned image is the transformed one.
C12_AppliedMatchesImage ==
    result # NoImage =>
        /\ result.metadata.enhancement_applied = FALSE => result.image = image
        /\ result.metadata.enhancement_applied = TRUE
              <=> /\ result.metadata.technique_used # "none"
                  /\ result.enhanced # NoImage
                  /\ result.image = result.enhanced

\* the transform ran and the validator rejected what it made
C12_Witness ==
    /\ Validated
    /\ result.metadata.enhancement_applied = FALSE
    /\ result.enhanced \in ClaheImages
    /\ result.image = image

NextJobStatus(media_id) ==
    LET rows == SelectSeq(pipeline', LAMBDA row : row.source_media_id = media_id)
    IN  IF rows = <<>> THEN "absent" ELSE rows[1].process_status

\* what the claim says of one retried call: at most 3 attempts, none after a
\* success, a sleep of 1s then 2s between attempts and none after the last, and
\* a raise only after three failures
RetryDiscipline(x) ==
    /\ Len(x.made) >= 1 /\ Len(x.made) <= 3
    /\ \A k \in 1..(Len(x.made) - 1) : x.made[k] # "ok"
    /\ x.returned <=> x.made[Len(x.made)] = "ok"
    /\ ~x.returned => Len(x.made) = 3
    /\ Len(x.sleeps) = Len(x.made) - 1
    /\ \A k \in 1..Len(x.sleeps) : x.sleeps[k] = IF k = 1 THEN 1 ELSE 2

RetriesDisciplined(t) ==
    t.tag = "traced" =>
        /\ RetryDiscipline(t.download)
        /\ (t.upload.called /\ t.upload.encoded) => RetryDiscipline(t.upload.store)

\* the download or the upload raised after its last attempt
Exhausted(t) ==
    /\ t.tag = "traced"
    /\ \/ ~t.download.returned
       \/ t.upload.called /\ t.upload.encoded /\ ~t.upload.store.returned

\* runner r leaves process_image through its except branch
ReturnsFailure(r) == pc[r] = "mark_as_failed" /\ pc'[r] \notin {"mark_as_failed", "exited"}

\* C13: download_image and upload_processed_image make at most 3
\* attempts, return on the first success, sleep 1s then 2s and raise only after
\* the third failure; that exhaustion makes the enclosing job failed and the
\* worker goes on with its batch.
C13_RetryThenJobFailed ==
    [][ \A r \in Runners :
          /\ RetriesDisciplined(io'[r])
          /\ (ReturnsFailure(r) /\ Exhausted(io[r]))
                => /\ NextJobStatus(task[r]) = "failed"
                   /\ pc'[r] = "batch" ]_vars

\* What the code does guarantee: the same retry discipline, and on exhaustion a
\* call of mark_as_failed, which makes the job failed unless that write raises
\* too (the ledger is then left as it was, the job processing); either way
\* process_image returns and the worker goes on with its batch.
RetryThenMarkAsFailed ==
    [][ \A r \in Runners :
          /\ RetriesDisciplined(io'[r])
          /\ (ReturnsFailure(r) /\ Exhausted(io[r]))
                => /\ NextJobStatus(task[r]) = "failed" \/ pipeline' = pipeline
                   /\ pc'[r] = "batch" ]_vars

\* C14: a decode failure or an encode failure fails the job after a single
\* attempt: no further fetch or store attempt is made and no backoff sleep
\* happens.
C14_MalformedNotRetried ==
    \A r \in Runners :
        io[r].tag = "traced" =>
            /\ \A k \in 1..Len(io[r].download.made) :
                  io[r].download.made[k] = "decode_error"
                  => /\ Len(io[r].download.made) = k
                     /\ Len(io[r].download.sleeps) = k - 1
                     /\ ~io[r].download.returned
            /\ (io[r].upload.called /\ ~io[r].upload.encoded)
                  => /\ io[r].upload.store.made = <<>>
                     /\ io[r].upload.store.sleeps = <<>>

\* the stages process_image can be in when it raises after the claim
StagesAfterClaim == FailStages \cup {"marking_as_completed"}

NextErrorDetails(media_id) ==
    LET rows == SelectSeq(pipeline', LAMBDA row : row.source_media_id = media_id)
    IN  IF rows = <<>> THEN NULL ELSE rows[1].error_details

\* C15: when a step of process_image raises after the job was
\* claimed, the job becomes failed, its error text names the stage that was
\* executing, and process_image returns instead of raising.
C15_RaiseMakesJobFailed ==
    [][ \A r \in Runners :
          (ReturnsFailure(r) /\ current_stage[r] \in StagesAfterClaim)
          => /\ NextJobStatus(task[r]) = "failed"
             /\ NextErrorDetails(task[r]) = current_stage[r]
             /\ pc'[r] = IF r = "worker" THEN "batch" ELSE "idle" ]_vars

\* What the code does guarantee: process_image then calls mark_as_failed with
\* the stage that was executing; the job becomes failed with that text unless
\* mark_as_failed raises too, which leaves the ledger as it was; process_image
\* returns in both cases.
RaiseCallsMarkAsFailed ==
    [][ \A r \in Runners :
          (ReturnsFailure(r) /\ current_stage[r] \in StagesAfterClaim)
          => /\ \/ pipeline' = pipeline
                \/ /\ NextJobStatus(task[r]) = "failed"
                   /\ NextErrorDetails(task[r]) = current_stage[r]
             /\ pc'[r] = IF r = "worker" THEN "batch" ELSE "idle" ]_vars

\* the worker is inside process_image
InImage == pc["worker"] \in {"mark_as_processing", "mark_as_processing_write",
                             "mark_as_completed", "mark_as_failed"}

\* C16: within a batch, when processing of one image fails at any step, also
\* when the failure cannot be recorded in the ledger, the worker stays in the
\* batch with the later images still in it, and an image leaves the batch only
\* by being attempted, unless shutdown was requested.
C16_FailureIsolated ==
    [][ /\ ReturnsFailure("worker")
              => \/ shutdown_event'
                 \/ pending_images' = pending_images /\ pc'["worker"] = "batch"
        /\ (pending_images # <<>> /\ pending_images' # pending_images)
              => \/ shutdown_event
                 \/ /\ task'["worker"] = Head(pending_images)
                    /\ pending_images' = Tail(pending_images) ]_vars

\* the second image of a batch is being processed after the first one failed
\* and that failure could not be recorded
C16_Witness ==
    /\ InImage
    /\ ~shutdown_event
    /\ task["worker"] = 2
    /\ batch_limit = 2
    /\ ApprovedUpload(1)
    /\ JobStatus(1) = "processing"

\* C17: no image-level or cycle-level error ends background_worker's loop:
\* after a failed poll the worker polls again, after a failed image it is back
\* in its batch, and it leaves the loop only once the shutdown flag is set.
C17_LoopSurvivesErrors ==
    [][ /\ (pc["worker"] \notin {"stopped", "exited"}
              /\ pc'["worker"] \in {"stopped", "exited"}) => shutdown_event'
        /\ (pc["worker"] = "idle" /\ worker_log = "batch_processing_error"
              /\ pc'["worker"] # "idle")
              => pc'["worker"] = "batch" \/ shutdown_event'
        /\ ReturnsFailure("worker") => pc'["worker"] = "batch" \/ shutdown_event' ]_vars

\* a poll made after a cycle whose query raised, itself after a cycle that
\* processed an image
C17_Witness ==
    /\ pc["worker"] = "batch"
    /\ worker_log = "batch_processing_error"
    /\ ~shutdown_event
    /\ \E s \in Sources : JobStatus(s) = "completed"

\* C18: after a failed poll cycle the delay before the next poll is larger
\* than the normal poll interval (and grows with consecutive failures, up to a
\* cap).
C18_BackoffAfterFailedCycle ==
    [][ (worker_log' = "batch_processing_error" /\ worker_log # worker_log')
        => sleep_for' > poll_interval ]_vars

\* C19: once the shutdown flag is set no further image of the batch is
\* started and no further poll cycle begins, and the worker sets
\* background_task_running to false: the process does not end before it has.
C19_CooperativeShutdown ==
    [][ /\ shutdown_event => task'["worker"] \in {task["worker"], 0}
        /\ shutdown_event => ~(pc["worker"] = "idle" /\ pc'["worker"] = "batch")
        /\ (pc["worker"] # "exited" /\ pc'["worker"] = "exited")
              => ~background_task_running' ]_vars

\* C20: a shutdown signal that arrives while process_image runs for a source
\* lets that image finish: the process never ends with the job of the image it
\* was processing left in processing.
C20_InFlightImageFinishes ==
    (pc["worker"] = "exited" /\ task["worker"] # 0)
    => JobStatus(task["worker"]) # "processing"

\* runner r's mark_as_processing has written: the insert or update took effect
Claimed(r) ==
    /\ pc[r] = "mark_as_processing_write"
    /\ \/ pc'[r] = "mark_as_completed"
       \/ current_stage'[r] \in FailStages

\* C3: with the poll worker alone, a source whose job is processing is never
\* taken from a batch, and no source ever has a second enhancement job row, so
\* at most one pending or processing job exists per source.
C3_SingleInFlight ==
    [][ /\ \A s \in Sources :
              (task["worker"] # s /\ task'["worker"] = s) => JobStatus(s) # "processing"
        /\ \A s \in Sources :
              Len(SelectSeq(pipeline', LAMBDA row : row.source_media_id = s)) <= 1 ]_vars

\* a poll made while a job is still processing (its failure could not be
\* recorded), after a retry has run mark_as_processing on an existing row
C3_Witness ==
    /\ JustPolled
    /\ \E s \in Sources : ApprovedUpload(s) /\ JobStatus(s) = "processing"
    /\ \E s \in Sources : JobStatus(s) = "failed"
    /\ attempts = MaxAttempts

AllowedTransitions ==
    { <<"absent", "processing">>, <<"pending", "processing">>,
      <<"failed", "processing">>, <<"processing", "completed">>,
      <<"processing", "failed">> }

\* C4: a job's state changes only absent/pending/failed -> processing,
\* processing -> completed and processing -> failed; a processing job is never
\* set to processing again and a completed job never changes.
C4_TransitionsOnly ==
    [][ /\ \A s \in Sources :
              \/ NextJobStatus(s) = JobStatus(s)
              \/ <<JobStatus(s), NextJobStatus(s)>> \in AllowedTransitions
        /\ \A r \in Runners :
              Claimed(r) => JobStatus(task[r]) \in {"absent", "pending", "failed"} ]_vars

\* C5: POST /process/{media_id} schedules process_image only for a source with
\* no job or a pending or failed job; for a processing or completed job it is
\* a no-op.
C5_ManualRespectsInFlight ==
    [][ (pc["manual"] = "idle" /\ pc'["manual"] = "mark_as_processing")
        => JobStatus(task'["manual"]) \notin {"processing", "completed"} ]_vars

\* C6: a job row's output_media_id is set if and only if the job is completed.
C6_OutputIffCompleted ==
    \A i \in 1..Len(pipeline) :
        (pipeline[i].output_media_id # 0) <=> (pipeline[i].process_status = "completed")

\* C7: a job row's error_details is set if and only if the job is failed.
C7_ErrorIffFailed ==
    \A i \in 1..Len(pipeline) :
        (pipeline[i].error_details # NULL) <=> (pipeline[i].process_status = "failed")

OutputsOf(media_id) ==
    {i \in 1..Len(processed_media) : processed_media[i].processed_from = media_id}

\* C8: at most one output media row derived from a source exists, and a source
\* whose attempt ended with the job failed has none.
C8_NoDuplicateOutput ==
    \A s \in Sources :
        /\ Cardinality(OutputsOf(s)) <= 1
        /\ (JobStatus(s) = "failed" /\ \A r \in Runners : task[r] # s)
              => OutputsOf(s) = {}

\* C26: get_pending_images(limit) returns at most `limit` sources, without
\* duplicates, in ascending created_at order of the source records (media ids
\* are numbered in created_at order).
C26_BoundedAscending ==
    JustPolled =>
        /\ Len(pending_images) <= batch_limit
        /\ \A i, j \in 1..Len(pending_images) :
              i < j => pending_images[i] < pending_images[j]

\* the early break cut the result: a full batch that skipped a source which
\* is not eligible, with a later eligible source left out
C26_Witness ==
    /\ JustPolled
    /\ Len(pending_images) = batch_limit
    /\ \E s \in 1..Len(media_files) :
          /\ ApprovedUpload(s)
          /\ ~Eligible(s)
          /\ s < pending_images[Len(pending_images)]
    /\ \E s \in 1..Len(media_files) :
          /\ Eligible(s)
          /\ s > pending_images[Len(pending_images)]

\* C29: no starvation: every approved, upload-complete source without a
\* completed job is eventually claimed by the poll loop, however many older
\* sources are already completed. A poll that claims nothing leaves the
\* ledger as it was, so every later poll claims nothing either: a poll must
\* never come back empty while a source is eligible.
C29_NoStarvation ==
    (JustPolled /\ \E s \in 1..Len(media_files) : Eligible(s))
    => pending_images # <<>>

\* C28: no job stays processing after the process_image invocation that
\* claimed it has ended, whichever step failed, a failing ledger write while
\* finalizing included: a processing job is the one the worker is inside.
C28_NoJobLeftProcessing ==
    \A s \in Sources :
        JobStatus(s) = "processing" => (InImage /\ task["worker"] = s)

\* C30: when process_image for the same source runs in the poll worker and
\* in a manual-trigger background task, in every interleaving of their ledger
\* calls at most one enhancement job row exists for that source and at most
\* one output media row is produced for it.
C30_OneJobOneOutput ==
    \A s \in Sources :
        /\ Len(pipeline_rows(s)) <= 1
        /\ Cardinality(OutputsOf(s)) <= 1

\* the stages of process_image that transform the image (lines 70-98)
TransformStages ==
    {"rotation_correction", "brightness_enhancement", "shadow_enhancement",
     "glare_reduction", "text_sharpening"}

\* C21: an exception raised by a transform stage while the worker processes a
\* job is not a job failure: no job is ever failed with a transform stage as
\* the failing stage.
C21_TransformErrorNotFailure ==
    \A i \in 1..Len(pipeline) :
        pipeline[i].process_status = "failed"
            => pipeline[i].error_details \notin TransformStages

\* the deviations from horizontal, in half degrees, of the detected lines
\* that lie within 10 degrees of horizontal
NearHorizontal(lines) ==
    {i \in 1..Len(lines) : abs(lines[i] - 90) <= 10}

\* the median of those deviations, by counting: the mean of the lower and
\* the upper median
MedianDeviation(lines) ==
    LET near == NearHorizontal(lines)
        n == Cardinality(near)
        dev(i) == 2 * (lines[i] - 90)
        atmost(v) == Cardinality({i \in near : dev(i) <= v})
        rank(k) == CHOOSE v \in {dev(i) : i \in near} :
                      /\ atmost(v) >= k
                      /\ \A w \in {dev(i) : i \in near} : atmost(w) >= k => v <= w
    IN  (rank((n + 1) \div 2) + rank((n \div 2) + 1)) \div 2

\* C24: for any set of detected lines the angle process_rotation applies is
\* at most 10 degrees in magnitude; it is 0, and the input image is returned
\* unchanged, when no line within 10 degrees of horizontal is detected or
\* the median deviation is at most 0.5 degrees in magnitude; otherwise it is
\* the median deviation of the near-horizontal lines.
C24_RotationBounded ==
    (result # NoImage /\ "rotation" \in DOMAIN result.metadata) =>
        LET applied == result.metadata.rotation.detected_angle
            still == \/ NearHorizontal(image.lines) = {}
                     \/ abs(MedianDeviation(image.lines)) <= 1
        IN  /\ abs(applied) <= 20
            /\ still => /\ applied = 0
                        /\ result.image = image
                        /\ result.metadata.rotation.rotation_applied = FALSE
            /\ ~still => /\ applied = MedianDeviation(image.lines)
                         /\ result.image.tag = "rotated"
                         /\ result.image.angle = applied
                         /\ result.metadata.rotation.rotation_applied = TRUE

\* lines at 90 and 91 degrees, beside one that is not near-horizontal: the
\* median deviation is exactly 0.5 degrees and the image is left as it is
C24_Witness ==
    /\ result # NoImage
    /\ image.lines = <<91, 45, 90>>
    /\ result.image = image
    /\ result.metadata.rotation.detected_angle = 0

\* the transform stages ran on the image, to their end or to an exception
StagesRan ==
    /\ result # NoImage
    /\ "processing_stages" \in DOMAIN result.metadata

\* C25: within one image's worker pipeline the stages run one after the
\* other in the order rotation, brightness, shadows, glare, sharpening; the
\* processing_stages recorded when all stages returned is exactly that
\* sequence, and a stage runs only if all earlier stages returned without
\* error.
C25_StagesInOrder ==
    StagesRan =>
        LET fixed == <<"rotation", "brightness", "shadows", "glare", "sharpening">>
            functions == <<"process_rotation", "process_brightness_enhancement",
                           "process_shadow_enhancement", "process_glare_reduction",
                           "process_text_sharpening">>
            recorded == result.metadata.processing_stages
        IN  /\ Len(recorded) <= Len(fixed)
            /\ recorded = SubSeq(fixed, 1, Len(recorded))
            /\ result.raised = "none" => /\ recorded = fixed
                                         /\ result.calls = functions
            /\ result.raised # "none" =>
                  /\ Len(recorded) < Len(fixed)
                  /\ result.calls = SubSeq(functions, 1, Len(recorded) + 1)

\* glare reduction raised: the three stages before it are recorded and
\* sharpening was not called
C25_Witness ==
    /\ StagesRan
    /\ result.raised = "glare_reduction"
    /\ result.metadata.processing_stages = <<"rotation", "brightness", "shadows">>
    /\ "process_text_sharpening" \notin Range(result.calls)

\* C22: the worker hands every claimed image to the enhancement pipeline: for
\* an image that already passes the quality gate the image persisted for the
\* job is the unmodified input, and a transformed image is persisted only
\* when the improvement validator accepted it.
C22_WorkerGatesEnhancement ==
    (StagesRan /\ result.raised = "none") =>
        /\ image_quality_is_good(image).is_good => result.image = image
        /\ result.image # image =>
              /\ result.image \in ClaheImages
              /\ enhancement_improved_image(image, result.image).improvement_detected

====
